---- MODULE Spec2Model ----
(***************************************************************************)
(* Model of VIO::ThreadsafeQueue<T> and VIO::ThreadsafeNullQueue<T>        *)
(* (include/kimera-vio/utils/ThreadsafeQueue.h).                           *)
(*                                                                         *)
(* A fixed set of threads calls the public operations of one queue         *)
(* instance.  A call is a sequence of steps of the calling thread; a step  *)
(* ends where another thread can observe or change what the call works on: *)
(* after the unlocked read of the atomic flag, before a mutex is taken     *)
(* inside a call, where the mutex is released and after a notify.  A call  *)
(* starts with its first statement.  Consecutive statements executed under *)
(* the mutex may form one step, since no other thread can touch the queue  *)
(* or write the flag in between; the mutex taken by popBlocking and the    *)
(* first evaluation of the wait predicate are one step for the same reason.*)
(***************************************************************************)
EXTENDS Integers, Sequences, FiniteSets, TLC

\* ---------------------------------------------------------------- bounds
NThreads == 3
MaxCalls == 4
MaxCallsLive == 3
MaxCallsWake == 4

Threads == 1..NThreads

\* ------------------------------------------------------------ vocabulary
NoThread == 0
NoValue == 0
Foreign == 99
NullPtr == <<-1>>

\* The value a thread passes to its k-th push: distinct over threads and k.
ValueOf(t, k) == 10 * t + k

\* Destinations a caller may hand to batchPop: an empty queue, a queue that
\* already holds an element, or a null pointer.
Destinations == {<<>>, <<Foreign>>, NullPtr}

VARIABLES
  isNull,        \* TRUE: the instance is a ThreadsafeNullQueue
  shutdown_,     \* std::atomic_bool shutdown_
  data_queue_,   \* InternalQueue data_queue_ (front = head of the sequence)
  mutex_,        \* std::mutex mutex_: the holder, or NoThread
  data_cond_,    \* std::condition_variable data_cond_: the threads blocked in wait
  aborted,       \* a glog CHECK failed: the process is gone
  pc,            \* per thread: the statement it executes next
  form,          \* per thread: "bool" (T& out parameter) or "ptr" (shared_ptr result)
  new_value,     \* per thread: argument of push
  output_queue,  \* per thread: the caller's container handed to batchPop
  last,          \* the call that returned in the step leading here, if any
  pushLog,       \* history: arguments of push in the order of data_queue_.push
  deqLog,        \* history: values handed to callers, in the order of removal
  budget,        \* calls that may still be started
  nPushed,       \* per thread: push calls started so far
  phase,         \* history: "sd", "act" or "none" (see PhaseAtCall)
  callPhase,     \* per thread: phase its call has been running in since it started
  everShutdown,  \* history: shutdown() has been called at least once
  everBatch      \* history: batchPop has been called at least once

shared == <<shutdown_, data_queue_, mutex_, data_cond_>>
locals == <<pc, form, new_value, output_queue>>
hist == <<pushLog, deqLog, budget, nPushed, phase, callPhase, everShutdown, everBatch>>
vars == <<isNull, aborted, shared, locals, last, hist>>

\* ------------------------------------------------------- pure operations
\* A push that does not look at the flag.
PushAccepts_Always(flag) == TRUE

\* push, line 153: the value is accepted iff the flag reads false.
PushAccepts(flag) == ~flag

\* A queue that inserts at the front.
Enqueue_AtFront(q, v) == <<v>> \o q

\* std::queue::push, line 159.
Enqueue(q, v) == Append(q, v)

\* A front() that reads the other end of the queue.
Front_Back(q) == q[Len(q)]

\* std::queue::front / pop, lines 172-173, 182-183, 192-193, 202-203.
Front(q) == Head(q)

\* A removal that leaves the queue as it is.
PopFront_Keep(q) == q

PopFront(q) == Tail(q)

\* A wait that only an element ends.
WaitPred_QueueOnly(q, flag) == q # <<>>

\* The predicate of data_cond_.wait, lines 169 and 180.
WaitPred(q, flag) == q # <<>> \/ flag

\* A popBlocking that hands out what is left before it honours the flag.
BlockingFails_DrainFirst(q, flag) == flag /\ q = <<>>

\* popBlocking, lines 171 and 181: after the wait the flag decides.
BlockingFails(q, flag) == flag

\* pop, lines 189 and 199, and batchPop, line 209: the unlocked fast check.
FastFail(flag) == flag

\* CHECK_NOTNULL(output_queue); CHECK(output_queue->empty()), lines 210-211.
CheckPasses(dest) == dest # NullPtr /\ dest = <<>>

\* A batchPop that copies the queue instead of swapping it out.
Swap_Copy(q, dest) == <<q, q>>

\* data_queue_.swap(*output_queue), line 217: <<new data_queue_, new output>>.
Swap(q, dest) == <<dest, q>>

\* A shutdown() that stores false.
ShutdownValue_False == FALSE

\* The value shutdown() stores into the flag, line 88.
ShutdownValue == TRUE

\* A resume() that stores true.
ResumeValue_True == TRUE

\* The value resume() stores into the flag, line 98.
ResumeValue == FALSE

\* A notify_all that wakes nobody.
NotifyAllWakes_Nobody(w) == {{}}

\* notify_all wakes every waiter, notify_one wakes one waiter if there is one.
NotifyAllWakes(w) == {w}

\* A notify_one that wakes nobody.
NotifyOneWakes_Nobody(w) == {{}}

\* notify_one, line 161: one of the waiting threads, if there is any.
NotifyOneWakes(w) == IF w = {} THEN {{}} ELSE {{t} : t \in w}

\* What a pop operation returns: bool forms true / false, pointer forms a
\* pointer to the value / a null shared_ptr.
Success(f) == IF f = "bool" THEN "true" ELSE "ptr"

Failure(f) == IF f = "bool" THEN "false" ELSE "null"

\* ------------------------------------------------------------ positions
PushPCs == {"push_lock", "push_append", "push_notify"}
PopBlockingPCs == {"pb_wait", "pb_relock", "pb_body"}
PopPCs == {"pop_lock", "pop_body"}
BatchPopPCs == {"bp_lock", "bp_body"}
ShutdownPCs == {"sd_write", "sd_notify"}
ResumePCs == {"rs_write", "rs_notify"}
EmptyPCs == {"em_read"}

\* The member function a position belongs to.
OpOf(l) ==
  CASE l \in PushPCs -> "push"
    [] l \in PopBlockingPCs -> "popBlocking"
    [] l \in PopPCs -> "pop"
    [] l \in BatchPopPCs -> "batchPop"
    [] l \in ShutdownPCs -> "shutdown"
    [] l \in ResumePCs -> "resume"
    [] l \in EmptyPCs -> "empty"
    [] OTHER -> "none"

InCall(t, name) == OpOf(pc[t]) = name

\* The statements inside the scope of a lock on mutex_: lines 85-89, 95-99,
\* 108, 156-160, 170-174 / 181-184, 191-194 / 201-204 and 214-219.
HoldingPCs ==
  {"push_append", "pb_body", "pop_body", "bp_body", "sd_write", "rs_write", "em_read"}

\* The statements that store into shutdown_ (lines 88, 98) and that append to
\* or remove from data_queue_ (lines 159, 173, 183, 193, 203, 217).
FlagWritePCs == {"sd_write", "rs_write"}

QueueWritePCs == {"push_append", "pb_body", "pop_body", "bp_body"}

\* The notify_all of shutdown() and resume(), lines 90 and 100.
NotifyAllPCs == {"sd_notify", "rs_notify"}

\* ------------------------------------------------------------ history
\* phase = "sd":  a shutdown() has returned, no resume() was running when
\*                it returned and none has been called since it was called.
\* phase = "act": a resume() has returned, no shutdown() was running when
\*                it returned and none has been called since it was called.
\* A call starts with its first statement.  callPhase of a call is the
\* phase it was made in, "cleanSd" / "cleanRs" for a shutdown() / resume(),
\* and becomes "none" when a call of the opposite kind starts.
PhaseAtCall(name) ==
  IF name = "shutdown" /\ phase = "act" THEN "none"
  ELSE IF name = "resume" /\ phase = "sd" THEN "none"
  ELSE phase

Kills(name) ==
  IF name = "shutdown" THEN {"act", "cleanRs"}
  ELSE IF name = "resume" THEN {"sd", "cleanSd"}
  ELSE {}

OwnPhase(name) ==
  IF name = "shutdown" THEN "cleanSd"
  ELSE IF name = "resume" THEN "cleanRs"
  ELSE phase

PhaseAtReturn(t, name) ==
  IF /\ name = "shutdown" /\ callPhase[t] = "cleanSd"
     /\ ~\E u \in Threads \ {t} : InCall(u, "resume")
  THEN "sd"
  ELSE IF /\ name = "resume" /\ callPhase[t] = "cleanRs"
          /\ ~\E u \in Threads \ {t} : InCall(u, "shutdown")
  THEN "act"
  ELSE phase

NoEvent ==
  [t |-> NoThread, op |-> "none", form |-> "none", ret |-> "none",
   value |-> NoValue, arg |-> NoValue, dest |-> <<>>, output |-> <<>>, phase |-> "none"]

\* The record of a call of t returning r.  v is what the T& out parameter or
\* the pointee of the result holds, a the argument of push, dest the
\* container handed to batchPop and out the same container at the return.
Event(t, name, f, r, v, a, dest, out, ph) ==
  [t |-> t, op |-> name, form |-> f, ret |-> r,
   value |-> v, arg |-> a, dest |-> dest, output |-> out, phase |-> ph]

\* ------------------------------------------------------------ frame helpers
\* Thread t is at statement l of a process that is still alive.
At(t, l) == ~aborted /\ pc[t] = l

Goto(t, l) == pc' = [pc EXCEPT ![t] = l] /\ last' = NoEvent

\* The history at the first statement of a call.
Enter(t, name) ==
  /\ At(t, "idle")
  /\ budget > 0
  /\ budget' = budget - 1
  /\ everShutdown' = (everShutdown \/ name = "shutdown")
  /\ everBatch' = (everBatch \/ name = "batchPop")
  /\ nPushed' = IF name = "push" THEN [nPushed EXCEPT ![t] = @ + 1] ELSE nPushed
  /\ UNCHANGED <<isNull, pushLog>>

\* The first statement of a call does not return: the call goes on at l.
Begin(t, name, l, f, a, dest) ==
  /\ Enter(t, name)
  /\ Goto(t, l)
  /\ form' = [form EXCEPT ![t] = f]
  /\ new_value' = [new_value EXCEPT ![t] = a]
  /\ output_queue' = [output_queue EXCEPT ![t] = dest]
  /\ phase' = PhaseAtCall(name)
  /\ callPhase' = [u \in Threads |->
                    IF u = t THEN OwnPhase(name)
                    ELSE IF callPhase[u] \in Kills(name) THEN "none" ELSE callPhase[u]]
  /\ UNCHANGED <<aborted, deqLog>>

\* The first statement of a call returns r and leaves the queue alone.
Immediate(t, name, f, r, a, dest) ==
  /\ Enter(t, name)
  /\ last' = Event(t, name, f, r, NoValue, a, dest, dest, phase)
  /\ UNCHANGED <<aborted, shared, locals, deqLog, phase, callPhase>>

\* Return r from the running call of thread t, waking the threads of w.
ReturnWaking(t, r, v, out, w) ==
  /\ pc' = [u \in Threads |-> IF u = t THEN "idle"
                              ELSE IF u \in w THEN "pb_relock" ELSE pc[u]]
  /\ last' = Event(t, OpOf(pc[t]), form[t], r, v, new_value[t],
                   output_queue[t], out, callPhase[t])
  /\ phase' = PhaseAtReturn(t, OpOf(pc[t]))
  /\ form' = [form EXCEPT ![t] = "none"]
  /\ new_value' = [new_value EXCEPT ![t] = NoValue]
  /\ output_queue' = [output_queue EXCEPT ![t] = <<>>]
  /\ callPhase' = [callPhase EXCEPT ![t] = "none"]
  /\ UNCHANGED <<isNull, aborted, pushLog, budget, nPushed, everShutdown, everBatch>>

Return(t, r, v, out) == ReturnWaking(t, r, v, out, {})

\* ------------------------------------------------------------ initial state
\* ThreadsafeQueue<T>::ThreadsafeQueue, lines 143-149 (and 130-131).
InitQueue ==
  /\ shutdown_ = FALSE
  /\ data_queue_ = <<>>
  /\ mutex_ = NoThread
  /\ data_cond_ = {}
  /\ aborted = FALSE

InitThreads ==
  /\ pc = [t \in Threads |-> "idle"]
  /\ form = [t \in Threads |-> "none"]
  /\ new_value = [t \in Threads |-> NoValue]
  /\ output_queue = [t \in Threads |-> <<>>]
  /\ last = NoEvent
  /\ pushLog = <<>>
  /\ deqLog = <<>>
  /\ nPushed = [t \in Threads |-> 0]
  /\ phase = "none"
  /\ callPhase = [t \in Threads |-> "none"]
  /\ everShutdown = FALSE
  /\ everBatch = FALSE

\* A ThreadsafeQueue<T>.
Init ==
  /\ isNull = FALSE
  /\ budget = MaxCalls
  /\ InitQueue
  /\ InitThreads

\* A ThreadsafeQueue<T> whose callers make fewer calls.
InitLive ==
  /\ isNull = FALSE
  /\ budget = MaxCallsLive
  /\ InitQueue
  /\ InitThreads

\* A ThreadsafeNullQueue<T>.
InitNull ==
  /\ isNull = TRUE
  /\ budget = MaxCalls
  /\ InitQueue
  /\ InitThreads

\* A ThreadsafeQueue<T> whose callers only push, pop, shut down and resume.
InitWake ==
  /\ isNull = FALSE
  /\ budget = MaxCallsWake
  /\ InitQueue
  /\ InitThreads

\* ------------------------------------------------------------ lock helpers
\* Steps that keep the flag, the queue and the wait set.
KeepQueue == UNCHANGED <<shutdown_, data_queue_, data_cond_, deqLog>>

\* A lock constructor that does not wait for the mutex to be free.
LockStep_NoWait(t, from, to) ==
  /\ At(t, from)
  /\ mutex_' = t
  /\ Goto(t, to)
  /\ KeepQueue
  /\ UNCHANGED <<isNull, aborted, form, new_value, output_queue>>
  /\ UNCHANGED <<pushLog, budget, nPushed, phase, callPhase, everShutdown, everBatch>>

\* std::unique_lock / std::lock_guard constructor inside a call.
LockStep(t, from, to) ==
  /\ At(t, from)
  /\ mutex_ = NoThread
  /\ mutex_' = t
  /\ Goto(t, to)
  /\ KeepQueue
  /\ UNCHANGED <<isNull, aborted, form, new_value, output_queue>>
  /\ UNCHANGED <<pushLog, budget, nPushed, phase, callPhase, everShutdown, everBatch>>

\* std::unique_lock / std::lock_guard constructor as the first statement.
LockFirst(t, name, to, f) ==
  /\ mutex_ = NoThread
  /\ mutex_' = t
  /\ Begin(t, name, to, f, NoValue, <<>>)
  /\ KeepQueue

\* Return r without touching the queue; rel: a lock guard is destroyed.
ReturnNothing(t, r, rel) ==
  /\ Return(t, r, NoValue, output_queue[t])
  /\ mutex_' = IF rel THEN NoThread ELSE mutex_
  /\ KeepQueue

\* Remove the front element, hand it to the caller, destroy the lock guard
\* and return success.
TakeFront(t) ==
  /\ data_queue_' = PopFront(data_queue_)
  /\ Return(t, Success(form[t]), Front(data_queue_), output_queue[t])
  /\ deqLog' = Append(deqLog, last'.value)
  /\ mutex_' = NoThread
  /\ UNCHANGED <<shutdown_, data_cond_>>

\* notify_one / notify_all followed by the return of r.
NotifyStep(t, from, r, wakes) ==
  /\ At(t, from)
  /\ \E w \in wakes :
       /\ data_cond_' = data_cond_ \ w
       /\ ReturnWaking(t, r, NoValue, output_queue[t], w)
  /\ UNCHANGED <<shutdown_, data_queue_, mutex_, deqLog>>

\* ------------------------------------------------------------ push
\* line 153: if (shutdown_) return false;
Push(t) ==
  /\ ~isNull
  /\ IF PushAccepts(shutdown_)
     THEN /\ Begin(t, "push", "push_lock", "bool", ValueOf(t, nPushed[t] + 1), <<>>)
          /\ UNCHANGED shared
     ELSE Immediate(t, "push", "bool", "false", ValueOf(t, nPushed[t] + 1), <<>>)

\* line 155: std::unique_lock<std::mutex> lk(mutex_);
push_lock(t) == LockStep(t, "push_lock", "push_append")

\* lines 156-160: data_queue_.push(data); lk.unlock();
push_append(t) ==
  /\ At(t, "push_append")
  /\ data_queue_' = Enqueue(data_queue_, new_value[t])
  /\ pushLog' = Append(pushLog, new_value[t])
  /\ mutex_' = NoThread
  /\ Goto(t, "push_notify")
  /\ UNCHANGED <<isNull, aborted, shutdown_, data_cond_>>
  /\ UNCHANGED <<form, new_value, output_queue>>
  /\ UNCHANGED <<deqLog, budget, nPushed, phase, callPhase, everShutdown, everBatch>>

\* lines 161-162: data_cond_.notify_one(); return true;
push_notify(t) == NotifyStep(t, "push_notify", "true", NotifyOneWakes(data_cond_))

\* ------------------------------------------------------------ popBlocking
\* data_cond_.wait(lk, pred), lines 169 and 180: while (!pred()) wait(lk);
\* with the mutex just taken.  wait(lk) releases the mutex and blocks the
\* thread atomically.
WaitOrGo_KeepLock(t) ==
  /\ mutex_ = NoThread
  /\ mutex_' = t
  /\ IF WaitPred(data_queue_, shutdown_)
     THEN /\ pc' = [pc EXCEPT ![t] = "pb_body"]
          /\ UNCHANGED data_cond_
     ELSE /\ pc' = [pc EXCEPT ![t] = "pb_wait"]
          /\ data_cond_' = data_cond_ \cup {t}
  /\ UNCHANGED <<shutdown_, data_queue_>>

WaitOrGo(t) ==
  /\ mutex_ = NoThread
  /\ IF WaitPred(data_queue_, shutdown_)
     THEN /\ pc' = [pc EXCEPT ![t] = "pb_body"]
          /\ mutex_' = t
          /\ UNCHANGED data_cond_
     ELSE /\ pc' = [pc EXCEPT ![t] = "pb_wait"]
          /\ mutex_' = NoThread
          /\ data_cond_' = data_cond_ \cup {t}
  /\ UNCHANGED <<shutdown_, data_queue_>>

\* lines 167-169 and 179-180: take the mutex and evaluate the predicate.
PopBlocking(t) ==
  /\ ~isNull
  /\ \E f \in {"bool", "ptr"} :
       Begin(t, "popBlocking", IF WaitPred(data_queue_, shutdown_) THEN "pb_body" ELSE "pb_wait",
             f, NoValue, <<>>)
  /\ WaitOrGo(t)

\* A condition variable may wake a thread that nobody notified.
SpuriousWake(t) ==
  /\ At(t, "pb_wait")
  /\ t \in data_cond_
  /\ data_cond_' = data_cond_ \ {t}
  /\ Goto(t, "pb_relock")
  /\ UNCHANGED <<isNull, aborted, shutdown_, data_queue_, mutex_>>
  /\ UNCHANGED <<form, new_value, output_queue, hist>>

\* A woken thread takes the mutex again and evaluates the predicate again.
pb_relock(t) ==
  /\ At(t, "pb_relock")
  /\ WaitOrGo(t)
  /\ last' = NoEvent
  /\ UNCHANGED <<isNull, aborted, form, new_value, output_queue, hist>>

\* lines 171-174 and 181-184: if (shutdown_) return false / nullptr;
\* otherwise hand out the front element.
pb_body(t) ==
  /\ At(t, "pb_body")
  /\ IF BlockingFails(data_queue_, shutdown_)
     THEN ReturnNothing(t, Failure(form[t]), TRUE)
     ELSE TakeFront(t)

\* ------------------------------------------------------------ pop
\* lines 189 and 199: if (shutdown_) return false / nullptr;
Pop(t) ==
  /\ ~isNull
  /\ \E f \in {"bool", "ptr"} :
       IF FastFail(shutdown_)
       THEN Immediate(t, "pop", f, Failure(f), NoValue, <<>>)
       ELSE Begin(t, "pop", "pop_lock", f, NoValue, <<>>) /\ UNCHANGED shared

\* lines 190 and 200: std::lock_guard<std::mutex> lk(mutex_);
pop_lock(t) == LockStep(t, "pop_lock", "pop_body")

\* lines 191-194 and 201-204.
pop_body(t) ==
  /\ At(t, "pop_body")
  /\ IF data_queue_ = <<>>
     THEN ReturnNothing(t, Failure(form[t]), TRUE)
     ELSE TakeFront(t)

\* ------------------------------------------------------------ batchPop
\* batchPop is not overridden by ThreadsafeNullQueue.
\* line 209: if (shutdown_) return false;
\* lines 210-211: CHECK_NOTNULL(output_queue); CHECK(output_queue->empty());
\* a failed CHECK logs FATAL and aborts the process.
BatchPop(t) ==
  \E dest \in Destinations :
    IF FastFail(shutdown_)
    THEN Immediate(t, "batchPop", "bool", "false", NoValue, dest)
    ELSE IF CheckPasses(dest)
    THEN Begin(t, "batchPop", "bp_lock", "bool", NoValue, dest) /\ UNCHANGED shared
    ELSE /\ Enter(t, "batchPop")
         /\ aborted' = TRUE
         /\ last' = Event(t, "batchPop", "bool", "abort", NoValue, NoValue, dest, dest, phase)
         /\ UNCHANGED <<shared, locals, deqLog, phase, callPhase>>

\* line 213: std::lock_guard<std::mutex> lk(mutex_);
bp_lock(t) == LockStep(t, "bp_lock", "bp_body")

\* lines 214-219.
bp_body(t) ==
  /\ At(t, "bp_body")
  /\ IF data_queue_ = <<>>
     THEN ReturnNothing(t, "false", TRUE)
     ELSE /\ data_queue_' = Swap(data_queue_, output_queue[t])[1]
          /\ Return(t, "true", NoValue, Swap(data_queue_, output_queue[t])[2])
          /\ deqLog' = deqLog \o last'.output
          /\ mutex_' = NoThread
          /\ UNCHANGED <<shutdown_, data_cond_>>

\* ------------------------------------------------------------ shutdown / resume
\* lines 84 and 94: std::unique_lock<std::mutex> mlock(mutex_);
Shutdown(t) == LockFirst(t, "shutdown", "sd_write", "none")

Resume(t) == LockFirst(t, "resume", "rs_write", "none")

\* The store into the atomic flag, followed by mlock.unlock().
WriteFlag(t, from, to, b) ==
  /\ At(t, from)
  /\ shutdown_' = b
  /\ mutex_' = NoThread
  /\ Goto(t, to)
  /\ UNCHANGED <<isNull, aborted, data_queue_, data_cond_>>
  /\ UNCHANGED <<form, new_value, output_queue, hist>>

\* lines 88-89: shutdown_ = true; mlock.unlock();
sd_write(t) == WriteFlag(t, "sd_write", "sd_notify", ShutdownValue)

\* lines 98-99: shutdown_ = false; mlock.unlock();
rs_write(t) == WriteFlag(t, "rs_write", "rs_notify", ResumeValue)

\* lines 90 and 100: data_cond_.notify_all(); and the function returns.
sd_notify(t) == NotifyStep(t, "sd_notify", "void", NotifyAllWakes(data_cond_))

rs_notify(t) == NotifyStep(t, "rs_notify", "void", NotifyAllWakes(data_cond_))

\* ------------------------------------------------------------ empty
\* line 107: std::lock_guard<std::mutex> lk(mutex_);
Empty(t) == LockFirst(t, "empty", "em_read", "bool")

\* line 108: return data_queue_.empty();
em_read(t) ==
  /\ At(t, "em_read")
  /\ ReturnNothing(t, IF data_queue_ = <<>> THEN "true" ELSE "false", TRUE)

\* ------------------------------------------------------------ ThreadsafeNullQueue
\* A null queue whose push reports failure.
NullPushResult_False == "false"

\* line 136: push returns true.
NullPushResult == "true"

\* lines 137-140: the bool forms return true, the pointer forms nullptr.
NullPopResult(f) == IF f = "bool" THEN "true" ELSE "null"

\* Virtual dispatch: a ThreadsafeNullQueue runs its overrides.
NullPush(t) ==
  /\ isNull
  /\ Immediate(t, "push", "bool", NullPushResult, ValueOf(t, nPushed[t] + 1), <<>>)

NullPopBlocking(t) ==
  /\ isNull
  /\ \E f \in {"bool", "ptr"} : Immediate(t, "popBlocking", f, NullPopResult(f), NoValue, <<>>)

NullPop(t) ==
  /\ isNull
  /\ \E f \in {"bool", "ptr"} : Immediate(t, "pop", f, NullPopResult(f), NoValue, <<>>)

\* ------------------------------------------------------------ specification
\* The operations both classes share.
Inherited(t) ==
  \/ BatchPop(t) \/ bp_lock(t) \/ bp_body(t)
  \/ Shutdown(t) \/ sd_write(t) \/ sd_notify(t)
  \/ Resume(t) \/ rs_write(t) \/ rs_notify(t)
  \/ Empty(t) \/ em_read(t)

QueueOps(t) ==
  \/ Push(t) \/ push_lock(t) \/ push_append(t) \/ push_notify(t)
  \/ PopBlocking(t) \/ pb_relock(t) \/ pb_body(t) \/ SpuriousWake(t)
  \/ Pop(t) \/ pop_lock(t) \/ pop_body(t)

NullOps(t) == NullPush(t) \/ NullPopBlocking(t) \/ NullPop(t)

Next == \E t \in Threads : QueueOps(t) \/ Inherited(t)

NextNull == \E t \in Threads : NullOps(t) \/ Inherited(t)

Spec == Init /\ [][Next]_vars

NullSpec == InitNull /\ [][NextNull]_vars

\* The steps a thread takes once it is inside a call.  A thread that is
\* scheduled takes them; nothing forces a caller to make a call, and nothing
\* forces a condition variable to wake a thread spuriously.
Internal(t) ==
  \/ push_lock(t) \/ push_append(t) \/ push_notify(t)
  \/ pb_relock(t) \/ pb_body(t)
  \/ pop_lock(t) \/ pop_body(t)
  \/ bp_lock(t) \/ bp_body(t)
  \/ sd_write(t) \/ sd_notify(t)
  \/ rs_write(t) \/ rs_notify(t)
  \/ em_read(t)

Fairness == \A t \in Threads : WF_vars(Internal(t))

LiveSpec == InitLive /\ [][Next]_vars /\ Fairness

\* Producers and consumers meeting shutdown() and resume(): the callers
\* leave batchPop and empty alone.
WakeOps(t) ==
  \/ QueueOps(t)
  \/ Shutdown(t) \/ sd_write(t) \/ sd_notify(t)
  \/ Resume(t) \/ rs_write(t) \/ rs_notify(t)

NextWake == \E t \in Threads : WakeOps(t)

WakeSpec == InitWake /\ [][NextWake]_vars /\ Fairness

\* ------------------------------------------------------------ vocabulary of the properties
IsPrefix(p, q) == Len(p) <= Len(q) /\ SubSeq(q, 1, Len(p)) = p

Range(q) == {q[i] : i \in 1..Len(q)}

NoDuplicates(q) == Cardinality(Range(q)) = Len(q)

Successes == {"true", "ptr"}

Failures == {"false", "null"}

\* The thread that pushed value v.
ProducerOf(v) == v \div 10

\* Thread t takes a step of the member function it is running.
Moves(t) == pc'[t] # pc[t]

\* ------------------------------------------------------------ C1
\* C1: as long as neither batchPop nor shutdown() has been called, the values
\* returned by successful pop / popBlocking calls, in the order of their
\* removal, are a prefix of the values pushed, in the order of their
\* insertion; the two sequences are equal whenever the queue is empty.
C1_FifoHandOff ==
  (~everBatch /\ ~everShutdown) =>
    /\ IsPrefix(deqLog, pushLog)
    /\ (data_queue_ = <<>> => deqLog = pushLog)

\* Two values went through the queue, one pop at a time, and it is drained.
C1_Witness ==
  /\ ~everBatch /\ ~everShutdown
  /\ Len(pushLog) >= 2
  /\ deqLog = pushLog
  /\ data_queue_ = <<>>
  /\ last.op \in {"pop", "popBlocking"} /\ last.ret \in Successes

\* ------------------------------------------------------------ C2
\* C2: a push call made after a shutdown() has returned and before any
\* resume() is called returns false, and no step of it changes the queue.
C2_PushAfterShutdownFails ==
  /\ [](/\ last.op = "push" /\ last.phase = "sd" => last.ret = "false"
        /\ \A t \in Threads : InCall(t, "push") => callPhase[t] # "sd")
  /\ [][last'.op = "push" /\ last'.phase = "sd" => data_queue_' = data_queue_]_vars

\* A push was refused between a shutdown() and the next resume() while the
\* queue held an element.
C2_Witness ==
  /\ last.op = "push" /\ last.phase = "sd" /\ last.ret = "false"
  /\ data_queue_ # <<>>

\* ------------------------------------------------------------ C3
\* A thread is suspended in popBlocking and the flag is true: it suspended
\* while the flag was false, and a shutdown() called later has stored true.
SuspendedInShutdown(t) == pc[t] = "pb_wait" /\ shutdown_

\* The popBlocking call of thread t has just returned failure.
ReturnedFailure(t) == last.t = t /\ last.op = "popBlocking" /\ last.ret \in Failures

\* C3 as stated: a thread suspended in popBlocking when a shutdown() stores
\* the flag eventually returns failure, whatever the other threads call.
C3_WakesAndFails ==
  \A t \in Threads : SuspendedInShutdown(t) ~> ReturnedFailure(t)

\* C3 amended: it eventually returns failure unless a resume() stores false
\* into the flag first (or a failed CHECK of batchPop ends the process).
C3_WakesAndFailsUnlessResumed ==
  \A t \in Threads :
    SuspendedInShutdown(t) ~> (ReturnedFailure(t) \/ ~shutdown_ \/ aborted)

\* A thread is suspended in popBlocking while the flag is already true.
C3_Witness == \E t \in Threads : SuspendedInShutdown(t) /\ t \in data_cond_

\* ------------------------------------------------------------ C4
\* C4: before the first call the flag is false and the queue empty; the
\* store of resume() makes the flag false; once a resume() has returned and
\* no shutdown() has been called since, the flag is false, a push returns
\* true and its value is inserted, and a popBlocking returns successfully
\* with the element that was at the head of the queue.
C4_ResumeReactivates ==
  /\ [](/\ budget = MaxCalls => ~shutdown_ /\ data_queue_ = <<>>
        /\ phase = "act" => ~shutdown_
        /\ last.op = "push" /\ last.phase = "act" =>
             last.ret = "true" /\ last.arg \in Range(pushLog)
        /\ last.op = "popBlocking" /\ last.phase = "act" => last.ret \in Successes)
  /\ [][/\ \A t \in Threads : pc[t] = "rs_write" /\ Moves(t) => ~shutdown_'
        /\ last'.op = "popBlocking" /\ last'.phase = "act" =>
             data_queue_ # <<>> /\ last'.value = Head(data_queue_)]_vars

\* After a shutdown() and a resume() a popBlocking returned a value.
C4_Witness ==
  /\ everShutdown
  /\ phase = "act"
  /\ last.op = "popBlocking" /\ last.phase = "act" /\ last.ret \in Successes
  /\ pushLog # <<>>

\* ------------------------------------------------------------ C5
\* C5: the locked step of batchPop either finds the queue empty, returns
\* false and changes neither the queue nor the destination, or returns true,
\* leaves the queue empty and the destination equal to the former content of
\* the queue, which is the part of the pushed values not handed out yet, in
\* push order.
C5_BatchPopDrains ==
  /\ [](last.op = "batchPop" /\ last.ret = "true" => data_queue_ = <<>>)
  /\ [][\A t \in Threads : pc[t] = "bp_body" /\ Moves(t) =>
          IF data_queue_ = <<>>
          THEN /\ last'.ret = "false"
               /\ data_queue_' = data_queue_
               /\ last'.output = last'.dest
          ELSE /\ last'.ret = "true"
               /\ data_queue_' = <<>>
               /\ last'.output = data_queue_
               /\ last'.output = SubSeq(pushLog, Len(deqLog) + 1, Len(pushLog))]_vars

\* A batchPop took two elements at once.
C5_Witness ==
  /\ last.op = "batchPop" /\ last.ret = "true"
  /\ Len(last.output) >= 2
  /\ data_queue_ = <<>>

\* ------------------------------------------------------------ C6
\* C6: a batchPop call with a non-empty destination ends in the abort, in
\* every state of the queue, and leaves the queue and the destination as
\* they were.
C6_NonEmptyDestinationAborts ==
  last.op = "batchPop" /\ last.dest = <<Foreign>> =>
    last.ret = "abort" /\ last.output = last.dest

\* ------------------------------------------------------------ C7
\* C7: without a shutdown(), whenever no push is running and the queue is
\* empty, the values handed to the consumers are exactly the values pushed,
\* each once, and the values of one producer appear in the order it pushed
\* them.
AllPushed == UNION {{ValueOf(t, k) : k \in 1..nPushed[t]} : t \in Threads}

C7_ExactlyOnce ==
  (~everShutdown /\ data_queue_ = <<>> /\ \A t \in Threads : ~InCall(t, "push")) =>
    /\ Range(deqLog) = AllPushed
    /\ NoDuplicates(deqLog)
    /\ \A i, j \in 1..Len(deqLog) :
         i < j /\ ProducerOf(deqLog[i]) = ProducerOf(deqLog[j]) => deqLog[i] < deqLog[j]

\* Two producers, one of them with two values, and everything was consumed.
C7_Witness ==
  /\ ~everShutdown /\ data_queue_ = <<>> /\ \A t \in Threads : ~InCall(t, "push")
  /\ Len(deqLog) >= 3
  /\ Cardinality({ProducerOf(v) : v \in Range(deqLog)}) >= 2

\* ------------------------------------------------------------ C8
\* C8: every pop operation of a ThreadsafeNullQueue reports no value: the
\* bool forms return false and leave the out parameter alone, the pointer
\* forms return a null pointer.
C8_NullQueuePopsFail ==
  (isNull /\ last.op \in {"pop", "popBlocking"}) =>
    last.ret = Failure(last.form) /\ last.value = NoValue

\* ------------------------------------------------------------ C9
\* C9: a popBlocking that is past its wait and finds the flag true returns
\* failure and leaves the queue as it is, empty or not.
C9_FailFastOnShutdown ==
  [][\A t \in Threads : pc[t] = "pb_body" /\ shutdown_ /\ Moves(t) =>
       /\ last'.t = t /\ last'.ret = Failure(form[t])
       /\ data_queue_' = data_queue_]_vars

\* A popBlocking failed although the queue held an element.
C9_Witness ==
  /\ last.op = "popBlocking" /\ last.ret \in Failures
  /\ shutdown_
  /\ data_queue_ # <<>>

\* ------------------------------------------------------------ C10
\* C10: while the flag is true no step of pop or batchPop removes an element
\* or returns success.
C10_NoPopInShutdown ==
  [][shutdown_ /\ last'.op \in {"pop", "batchPop"} =>
       data_queue_' = data_queue_ /\ last'.ret \notin Successes]_vars

\* ------------------------------------------------------------ C11
\* C11: between the return of a shutdown() and the next call of resume(),
\* while the flag is true, no step makes the queue longer.
C11_NoPushInShutdown ==
  [][phase = "sd" /\ shutdown_ => Len(data_queue_') <= Len(data_queue_)]_vars

\* ------------------------------------------------------------ C12
\* Thread t is inside a call of a member function other than popBlocking.
InNonBlockingCall(t) == pc[t] # "idle" /\ ~InCall(t, "popBlocking")

\* C12: only threads inside popBlocking are in the wait set of the condition
\* variable, and a suspended thread does not hold the mutex; every call of
\* push, pop, batchPop, shutdown, resume and empty returns (or the process
\* is ended by a failed CHECK); the locked step of pop on an empty queue
\* returns failure at once and leaves the queue as it is.
C12_OnlyPopBlockingSuspends ==
  /\ [](\A t \in Threads :
          /\ t \in data_cond_ => pc[t] = "pb_wait"
          /\ pc[t] = "pb_wait" => mutex_ # t)
  /\ \A t \in Threads : InNonBlockingCall(t) ~> (pc[t] = "idle" \/ aborted)
  /\ [][\A t \in Threads : pc[t] = "pop_body" /\ data_queue_ = <<>> /\ Moves(t) =>
          /\ last'.t = t /\ last'.ret = Failure(form[t])
          /\ pc'[t] = "idle"
          /\ data_queue_' = data_queue_]_vars

\* A pop on the empty queue has returned failure, the flag being false,
\* while two consumers are suspended in popBlocking.
C12_Witness ==
  /\ last.op = "pop" /\ last.ret \in Failures
  /\ ~shutdown_ /\ data_queue_ = <<>>
  /\ Cardinality({t \in Threads : pc[t] = "pb_wait" /\ t \in data_cond_}) >= 2

\* ------------------------------------------------------------ C13
\* C13: every step of a shutdown() taken while the flag is true leaves the
\* flag true and the queue as it is; its last step empties the wait set of
\* the condition variable and sends every thread that was in it back to the
\* predicate; when a shutdown() that no resume() overlapped has returned,
\* the flag is true.
C13_ShutdownIdempotent ==
  /\ [](last.op = "shutdown" /\ last.phase = "cleanSd" => shutdown_)
  /\ [][\A t \in Threads :
          (shutdown_ /\ pc'[t] \in ShutdownPCs \cup {"idle"}
             /\ pc[t] \in ShutdownPCs \cup {"idle"} /\ Moves(t)) =>
            /\ shutdown_'
            /\ data_queue_' = data_queue_
            /\ deqLog' = deqLog
            /\ pc[t] = "sd_notify" =>
                 /\ data_cond_' = {}
                 /\ \A u \in data_cond_ : pc'[u] = "pb_relock"]_vars

\* A shutdown() has returned and no resume() has been called; another
\* shutdown() has stored true again and is about to notify, and the queue
\* still holds an element.
C13_Witness ==
  /\ phase = "sd" /\ shutdown_
  /\ \E t \in Threads : pc[t] = "sd_notify"
  /\ data_queue_ # <<>>

\* ------------------------------------------------------------ C14
\* C14: in every state of a ThreadsafeNullQueue the queue is empty and
\* nothing was ever appended; every push has returned true, also between a
\* shutdown() and the next resume(); every empty() has returned true; every
\* batchPop with an empty destination has returned false and left the
\* destination empty.
C14_NullQueueStoresNothing ==
  isNull =>
    /\ data_queue_ = <<>> /\ pushLog = <<>>
    /\ last.op = "push" => last.ret = "true"
    /\ last.op = "empty" => last.ret = "true"
    /\ last.op = "batchPop" /\ last.dest = <<>> =>
         last.ret = "false" /\ last.output = <<>>

\* A push on a null queue has returned true after a shutdown() and before
\* any resume().
C14_Witness ==
  /\ isNull
  /\ last.op = "push" /\ last.ret = "true"
  /\ last.phase = "sd" /\ shutdown_

\* ------------------------------------------------------------ C15
\* C15: at most one thread is inside a locked section, and it is the owner
\* of the mutex; the statement that stores into the flag and every step
\* that changes the queue is taken by the owner of the mutex; the store
\* into the flag is followed in its call by the notify_all, which empties
\* the wait set and sends every waiter back to the predicate.
C15_LockDiscipline ==
  /\ [](/\ Cardinality({t \in Threads : pc[t] \in HoldingPCs}) <= 1
        /\ \A t \in Threads : pc[t] \in HoldingPCs <=> mutex_ = t)
  /\ [][/\ shutdown_' # shutdown_ =>
             \E t \in Threads : mutex_ = t /\ pc[t] \in FlagWritePCs /\ Moves(t)
        /\ data_queue_' # data_queue_ =>
             \E t \in Threads : mutex_ = t /\ pc[t] \in QueueWritePCs /\ Moves(t)
        /\ \A t \in Threads :
             /\ pc[t] \in FlagWritePCs /\ Moves(t) =>
                  mutex_ = t /\ pc'[t] \in NotifyAllPCs
             /\ pc[t] \in NotifyAllPCs /\ Moves(t) =>
                  /\ data_cond_' = {}
                  /\ \A u \in data_cond_ : pc'[u] = "pb_relock"]_vars

\* A shutdown() owns the mutex and is about to store into the flag while a
\* push and a pop are waiting for the mutex and a value is in the queue.
C15_Witness ==
  /\ \E t \in Threads : pc[t] = "sd_write" /\ mutex_ = t
  /\ \E u \in Threads : pc[u] = "push_lock"
  /\ \E v \in Threads : pc[v] = "pop_lock"
  /\ data_queue_ # <<>>

\* ------------------------------------------------------------ C16
\* C16: a popBlocking returns success only in a step taken with the flag
\* false and the queue non-empty, handing out the head and removing it; it
\* returns failure only in a step taken with the flag true, leaving the
\* queue as it is.  A suspended or woken thread does not return before it
\* has found the queue non-empty or the flag true, which only the append of
\* a push or the store of a shutdown() bring about; a woken thread that
\* finds the queue empty and the flag false suspends again.
C16_ReturnsOnlyForAReason ==
  [][/\ last'.op = "popBlocking" /\ last'.ret \in Successes =>
          /\ ~shutdown_ /\ data_queue_ # <<>>
          /\ last'.value = Head(data_queue_)
          /\ data_queue_' = Tail(data_queue_)
     /\ last'.op = "popBlocking" /\ last'.ret \in Failures =>
          shutdown_ /\ data_queue_' = data_queue_
     /\ \A t \in Threads :
          /\ pc[t] \in {"pb_wait", "pb_relock"} => pc'[t] \in PopBlockingPCs
          /\ pc[t] # "pb_body" /\ pc'[t] = "pb_body" => data_queue_ # <<>> \/ shutdown_
          /\ pc[t] = "pb_relock" /\ Moves(t) /\ data_queue_ = <<>> /\ ~shutdown_ =>
               pc'[t] = "pb_wait" /\ t \in data_cond_' /\ mutex_' = NoThread
     /\ Len(data_queue_') > Len(data_queue_) =>
          \E u \in Threads : pc[u] = "push_append" /\ Moves(u)
     /\ ~shutdown_ /\ shutdown_' =>
          \E u \in Threads : pc[u] = "sd_write" /\ Moves(u)]_vars

\* A resume() has just returned; a thread that was suspended in popBlocking
\* is awake and about to find the queue empty and the flag false.
C16_Witness ==
  /\ \E t \in Threads : pc[t] = "pb_relock"
  /\ data_queue_ = <<>> /\ ~shutdown_ /\ mutex_ = NoThread
  /\ last.op = "resume"

\* ------------------------------------------------------------ C17
\* The threads inside popBlocking, suspended or not.
Consumers == {t \in Threads : InCall(t, "popBlocking")}

\* An element is waiting in an active queue while a thread is suspended.
ElementAndSleeper ==
  ~shutdown_ /\ data_queue_ # <<>> /\ \E t \in Threads : pc[t] = "pb_wait"

\* No shutdown() has been called, and the queue holds an element for every
\* thread inside popBlocking: no other consumer has taken one of them.
OneForEach == ~everShutdown /\ Len(data_queue_) >= Cardinality(Consumers)

\* The popBlocking call of thread t has just returned a value.
ReturnedValue(t) ==
  /\ last.t = t /\ last.op = "popBlocking" /\ last.ret \in Successes
  /\ last.value \in Range(deqLog)

\* C17: the notify_one of push takes one thread out of a non-empty wait set;
\* ElementAndSleeper does not hold forever; a thread inside popBlocking
\* while no shutdown() has been called and the queue holds an element for
\* every thread inside popBlocking eventually returns a value, unless a
\* shutdown() is called or another consumer takes an element first; no
\* value is handed out twice; only the call of a shutdown(), a pop that
\* takes an element and a new call of popBlocking end that condition.
C17_NoLostWakeupOnPush ==
  /\ [][\A t \in Threads : pc[t] = "push_notify" /\ Moves(t) /\ data_cond_ # {} =>
          /\ Cardinality(data_cond_') = Cardinality(data_cond_) - 1
          /\ \E u \in data_cond_ : pc'[u] = "pb_relock"]_vars
  /\ []<>(~ElementAndSleeper)
  /\ \A t \in Threads :
       (InCall(t, "popBlocking") /\ OneForEach) ~> (ReturnedValue(t) \/ ~OneForEach)
  /\ [](NoDuplicates(deqLog))
  /\ [][OneForEach /\ ~OneForEach' =>
          \/ everShutdown'
          \/ last'.op = "pop"
          \/ \E u \in Threads : pc[u] = "idle" /\ OpOf(pc'[u]) = "popBlocking"]_vars

\* Two threads are inside popBlocking, one of them still suspended, and two
\* pushes have put two elements into the queue.
C17_Witness ==
  /\ OneForEach
  /\ Cardinality(Consumers) = 2
  /\ \E t \in Threads : pc[t] = "pb_wait"
  /\ Len(pushLog) = 2 /\ Len(data_queue_) = 2

\* ------------------------------------------------------------ C18
\* C18: the elements that are in the queue stay in it, in their order, in
\* every step taken between the return of a shutdown() and the next call of
\* resume() while the flag is true.
C18_ElementsStayDuringShutdown ==
  [][phase = "sd" /\ shutdown_ => IsPrefix(data_queue_, data_queue_')]_vars

\* ------------------------------------------------------------ C19
\* C19: once a shutdown() has returned and as long as no resume() is called,
\* no thread is in the wait set of the condition variable, and every thread
\* inside popBlocking, whether it was suspended before the shutdown() or
\* made its call after it, eventually returns failure (unless a failed CHECK
\* of batchPop ends the process).
C19_NoHangInShutdown ==
  /\ [](phase = "sd" => shutdown_ /\ data_cond_ = {})
  /\ \A t \in Threads :
       (InCall(t, "popBlocking") /\ phase = "sd") ~>
         (ReturnedFailure(t) \/ phase # "sd" \/ aborted)

\* A popBlocking called after a shutdown() had returned, and before any
\* resume(), has returned failure while the queue holds an element.
C19_Witness ==
  /\ last.op = "popBlocking" /\ last.phase = "sd" /\ last.ret \in Failures
  /\ phase = "sd"
  /\ data_queue_ # <<>>

====
